---- MODULE Spec2Model ----
(***************************************************************************)
(* Model of the interactive table browser of dbv (src/dbv/tui.py): the     *)
(* keyboard dispatcher Interface.keyboard_handler with its command         *)
(* handlers, the command registration add_command, the filter editor       *)
(* CaptureKeyboardInput, the filter compiler compile_filter and the        *)
(* windowed renderer TableView.__rich_console__ with its column fit.       *)
(*                                                                         *)
(* Text is a sequence of one-character strings.  The control characters    *)
(* are written as tokens ("ESC" for \x1b, ...); every keystroke is one     *)
(* element of a text.                                                      *)
(***************************************************************************)
EXTENDS Integers, Sequences, FiniteSets, TLC

\* ------------------------------------------------------------- characters
ESCAPE_KEY == "ESC"
CTRL_H == "^H"
BACKSPACE == "DEL"
CTRL_K == "^K"
NEWLINE == "\n"
CR == "\r"

\* The characters str.strip() removes, among those that can be typed here.
Whitespace == {" ", "\t", NEWLINE, CR}

\* ------------------------------------------------------------------ bounds
\* Longest buffer the model types (appending is refused beyond it).
MaxLen == 2

\* Terminal heights offered to a render: body heights -1, 1 and 2 (one
\* less while the prompt line shows).
Heights == {6, 8, 9}

\* The terminals offered to a render (options.height, options.max_width):
\* a narrow one, one that cuts the table and one that holds all of it.
Terminals ==
  {[height |-> h, max_width |-> IF h = 6 THEN 3 ELSE IF h = 8 THEN 6 ELSE 80] :
     h \in Heights}

\* Characters typed while the filter editor is active: the control
\* characters, return, and text made of "~", "\r" and the letters "q" and
\* "s" (two command keys, and the names of two columns).
EditKeys == {ESCAPE_KEY, CTRL_H, BACKSPACE, CTRL_K, NEWLINE, CR, "~", "q", "s"}

\* Keys pressed with no editor active: every command key, and "~" for the
\* keys no command is registered under.
CommandKeys == {"/", "s", "t", "h", "j", "k", "l", "g", "G", "q", "?", "~"}

Keys == CommandKeys \cup EditKeys

\* Column fit on its own: the most columns a measured page has, the
\* maximum widths measure may report and the viewport widths tried (31, 38
\* and 40 leave 30, 30 and 32 spare cells after columns one cell wide).
MaxColumns == 9

Maxima == {0, 6, 40}

ViewportWidths == {-1, 5, 31, 38, 40, 100}

\* Registration on its own: the scopes, and the keys and handlers
\* registered in them.
Scopes == {"commands", "table_commands"}

RegKeys == {"j", "q"}

RegHandlers == {"scroll_down", "summary_mode", "quit"}

\* Paging on its own: the row counts of the sources paged through and the
\* terminal heights rendered at (body heights -1, 0, 1, 20 and 63).
RowCounts == {0, 1, 20, 55}

PagedHeights == {6, 7, 8, 27, 70}

\* ------------------------------------------------------------ data sources
\* A data source: ordered column names, their dtypes, and the rows in
\* source order (row i has index label i - 1).  Cells are stored per dtype.
\* attributes holds the column names that are also names the DataFrame
\* class defines itself, which getattr(df, name) resolves to before any
\* column.
Row(qv, sv, tv) == [q |-> qv, s |-> sv, t |-> tv]

DF_FULL ==
  [columns |-> <<"q", "s", "t">>,
   dtypes  |-> [q |-> "bool", s |-> "int", t |-> "object"],
   attributes |-> {},
   rows    |-> << Row(TRUE, 1, <<"q", "q">>),
                  Row(FALSE, 2, <<"~", "s">>),
                  Row(TRUE, 3, <<"s", "~">>) >>]

DF_NOROWS == [DF_FULL EXCEPT !.rows = <<>>]

DF_EMPTY == [columns |-> <<>>, dtypes |-> <<>>, attributes |-> {}, rows |-> <<>>]

\* DF_FULL with its second column under a name that is a method of the
\* DataFrame class (as "count" or "head" are); the one-letter name "s"
\* stands for it.
DF_SHADOWED == [DF_FULL EXCEPT !.attributes = {"s"}]

DataSources == {DF_FULL, DF_NOROWS, DF_EMPTY}

\* The source with the columns of DF_FULL and n rows.
DF_ROWS(n) ==
  [DF_FULL EXCEPT !.rows = [i \in 1..n |-> Row(i % 2 = 1, i, <<"q">>)]]

\* ------------------------------------------------------------------- state
VARIABLES
  df,              \* Interface.df / TableView.df: the data source
  mode,            \* Interface.mode
  editing,         \* Interface.editing: "None" or "_filter" (the table's editor)
  value,           \* TableView._filter.value: the editor's buffer
  filter_editing,  \* TableView._filter.editing
  startat,         \* TableView._startat
  column_startat,  \* TableView._column_startat
  last_page_size,  \* TableView._last_page_size
  key,             \* the character the last step handled ("" when it was a render)
  ret,             \* value returned by the last keyboard_handler call
  ran,             \* what the last step ran: a command handler, the editor, a render
  updated,         \* the last step called the editor's update policy
  refreshed,       \* the last step called refresh()
  finalize_calls,  \* finalize invocations of the current (or last) editing session
  frame,           \* what the last render produced (NoFrame after a keystroke)
  registry         \* Interface.commands and Interface.table_commands, whether a
                   \* registration raised, whether the Interface is constructed

vars == <<df, mode, editing, value, filter_editing, startat, column_startat,
          last_page_size, key, ret, ran, updated, refreshed, finalize_calls, frame,
          registry>>

view_state == <<startat, column_startat, last_page_size>>

\* Fixed chrome of the table pane: title, header, spacers and footer.
Chrome == 7

NoFrame ==
  [rendered |-> FALSE, raised |-> FALSE, error |-> "none", prompt |-> FALSE,
   via |-> "none", columns |-> <<>>, page |-> <<>>, total |-> 0,
   width |-> 0, maximum |-> <<>>, measured |-> FALSE, admitted |-> 0,
   height |-> 0]

\* ------------------------------------------------------------ text helpers
EndsWith(t, c) == Len(t) > 0 /\ t[Len(t)] = c

RECURSIVE RStrip(_, _)
\* str.rstrip(chars): drop every trailing character that is in chars.
RStrip(t, chars) ==
  IF Len(t) > 0 /\ t[Len(t)] \in chars
  THEN RStrip(SubSeq(t, 1, Len(t) - 1), chars)
  ELSE t

RECURSIVE LStrip(_, _)
LStrip(t, chars) ==
  IF Len(t) > 0 /\ t[1] \in chars THEN LStrip(Tail(t), chars) ELSE t

\* str.strip()
Strip(t) == LStrip(RStrip(t, Whitespace), Whitespace)

\* pat in t (str.__contains__ / str.contains(pat, regex=False))
Contains(t, pat) ==
  \E i \in 1..(Len(t) - Len(pat) + 1) : SubSeq(t, i, i + Len(pat) - 1) = pat

InSeq(x, s) == \E i \in 1..Len(s) : s[i] = x

\* s[k:] with Python's reading of a negative k
SliceFrom(s, k) ==
  LET n == Len(s)
      lo == IF k >= 0 THEN k ELSE IF n + k > 0 THEN n + k ELSE 0
  IN SubSeq(s, lo + 1, n)

Min(a, b) == IF a < b THEN a ELSE b
Max(a, b) == IF a > b THEN a ELSE b

\* ------------------------------------------------------------------ editor
\* send_character, lines 298-303: the buffer after the character is applied.
\* Backspace that empties the buffer.
EditedBackspaceClears(v, ch) ==
  IF ch \in {BACKSPACE, CTRL_H, CTRL_K} THEN <<>> ELSE Append(v, ch)

Edited(v, ch) ==
  IF ch \in {BACKSPACE, CTRL_H} THEN SubSeq(v, 1, Len(v) - 1)
  ELSE IF ch = CTRL_K THEN <<>>
  ELSE Append(v, ch)

\* The update policy of the filter prompt: the value it leaves in the
\* editor and whether editing goes on.
\* The policy that strips the newline alone.
exit_on_return_newline(v) ==
  IF EndsWith(v, NEWLINE)
  THEN [value |-> RStrip(v, {NEWLINE}), keep |-> FALSE]
  ELSE [value |-> v, keep |-> TRUE]

exit_on_return(v) ==
  IF EndsWith(v, NEWLINE)
  THEN [value |-> RStrip(v, {CR, NEWLINE}), keep |-> FALSE]
  ELSE [value |-> v, keep |-> TRUE]

\* send_character: mutate the buffer, then ask the update policy.
send_character(v, ch) == exit_on_return(Edited(v, ch))

\* ---------------------------------------------------------------- commands
\* The two registries as the add_command decorators fill them.
table_commands ==
  [k \in {"/", "h", "j", "k", "l", "g", "G"} |->
     CASE k = "/" -> "edit_filter"
       [] k = "h" -> "scroll_left"
       [] k = "j" -> "scroll_down"
       [] k = "k" -> "scroll_up"
       [] k = "l" -> "scroll_right"
       [] k = "g" -> "go_to_top"
       [] k = "G" -> "go_to_bottom"]

commands ==
  [k \in {"s", "t", "q", "?"} |->
     CASE k = "s" -> "summary_mode"
       [] k = "t" -> "table_mode"
       [] k = "q" -> "quit"
       [] k = "?" -> "show_help"]

\* The registries once the class body has run its eleven decorators, and
\* an Interface is constructed.
Registered ==
  [table_commands |-> table_commands, commands |-> commands,
   raised |-> FALSE, started |-> TRUE]

\* TableView.startat setter
SetStartat(x) == Min(Len(df.rows) - 1, Max(0, x))

\* TableView.column_startat setter
SetColumnStartat(x) == Min(Len(df.columns) - 1, Max(0, x))

\* What a command handler leaves alone besides the fields it names.
Quiet == /\ updated' = FALSE
         /\ frame' = NoFrame
         /\ UNCHANGED <<df, finalize_calls>>

\* edit_filter that leaves the editor's own flag alone.
edit_filter_unflagged ==
  /\ editing' = "_filter"
  /\ finalize_calls' = 0
  /\ refreshed' = TRUE
  /\ ret' = TRUE
  /\ ran' = "edit_filter"
  /\ updated' = FALSE
  /\ frame' = NoFrame
  /\ UNCHANGED <<df, mode, value, filter_editing, startat, column_startat, last_page_size>>

\* edit_filter that starts from an empty buffer.
edit_filter_reset ==
  /\ editing' = "_filter"
  /\ filter_editing' = TRUE
  /\ finalize_calls' = 0
  /\ refreshed' = TRUE
  /\ ret' = TRUE
  /\ ran' = "edit_filter"
  /\ updated' = FALSE
  /\ frame' = NoFrame
  /\ value' = <<>>
  /\ UNCHANGED <<df, mode, startat, column_startat, last_page_size>>

edit_filter ==
  /\ editing' = "_filter"
  /\ filter_editing' = TRUE
  /\ finalize_calls' = 0
  /\ refreshed' = TRUE
  /\ ret' = TRUE
  /\ ran' = "edit_filter"
  /\ updated' = FALSE
  /\ frame' = NoFrame
  /\ UNCHANGED <<df, mode, value, startat, column_startat, last_page_size>>

SetMode(m, name) ==
  /\ mode' = m
  /\ refreshed' = TRUE
  /\ ret' = TRUE
  /\ ran' = name
  /\ Quiet
  /\ UNCHANGED <<editing, value, filter_editing, startat, column_startat, last_page_size>>

summary_mode == SetMode("SUMMARY", "summary_mode")

table_mode == SetMode("TABLE", "table_mode")

show_help == SetMode("HELP", "show_help")

MoveRow(x, name) ==
  /\ startat' = x
  /\ refreshed' = TRUE
  /\ ret' = TRUE
  /\ ran' = name
  /\ Quiet
  /\ UNCHANGED <<mode, editing, value, filter_editing, column_startat, last_page_size>>

\* A column move that requests no refresh.
MoveColumnSilent(x, name) ==
  /\ column_startat' = x
  /\ refreshed' = FALSE
  /\ ret' = TRUE
  /\ ran' = name
  /\ Quiet
  /\ UNCHANGED <<mode, editing, value, filter_editing, startat, last_page_size>>

MoveColumn(x, name) ==
  /\ column_startat' = x
  /\ refreshed' = TRUE
  /\ ret' = TRUE
  /\ ran' = name
  /\ Quiet
  /\ UNCHANGED <<mode, editing, value, filter_editing, startat, last_page_size>>

\* TableView.increment_page / decrement_page
\* increment_page that goes on one row.
increment_page_row == SetStartat(startat + 1)

increment_page == SetStartat(startat + last_page_size)

\* decrement_page that goes back one row.
decrement_page_row == SetStartat(startat - 1)

decrement_page == SetStartat(startat - last_page_size)

scroll_down == MoveRow(increment_page, "scroll_down")

scroll_up == MoveRow(decrement_page, "scroll_up")

go_to_top == MoveRow(SetStartat(0), "go_to_top")

go_to_bottom == MoveRow(SetStartat(Len(df.rows) - last_page_size), "go_to_bottom")

scroll_left == MoveColumn(SetColumnStartat(column_startat - 1), "scroll_left")

scroll_right == MoveColumn(SetColumnStartat(column_startat + 1), "scroll_right")

\* quit that does not stop the loop.
quit_continue ==
  /\ ret' = TRUE
  /\ ran' = "quit"
  /\ refreshed' = FALSE
  /\ Quiet
  /\ UNCHANGED <<mode, editing, value, filter_editing, view_state>>

quit ==
  /\ ret' = FALSE
  /\ ran' = "quit"
  /\ refreshed' = FALSE
  /\ Quiet
  /\ UNCHANGED <<mode, editing, value, filter_editing, view_state>>

\* No command is registered under the key: nothing happens.
NoCommand ==
  /\ ret' = TRUE
  /\ ran' = "none"
  /\ refreshed' = FALSE
  /\ Quiet
  /\ UNCHANGED <<mode, editing, value, filter_editing, view_state>>

Call(fn) ==
  CASE fn = "edit_filter"  -> edit_filter
    [] fn = "summary_mode" -> summary_mode
    [] fn = "table_mode"   -> table_mode
    [] fn = "show_help"    -> show_help
    [] fn = "scroll_left"  -> scroll_left
    [] fn = "scroll_right" -> scroll_right
    [] fn = "scroll_down"  -> scroll_down
    [] fn = "scroll_up"    -> scroll_up
    [] fn = "go_to_top"    -> go_to_top
    [] fn = "go_to_bottom" -> go_to_bottom
    [] fn = "quit"         -> quit

\* The test of line 384: the escape key ends editing without the editor
\* being asked (the or short-circuits); keep is send_character's answer.
\* The test without the escape key.
DoneAskEditor(ch, keep) == ~keep

Done(ch, keep) == ch = ESCAPE_KEY \/ ~keep

\* Line 385: finalize is called when editing is done.
\* finalize called on every captured key.
FinalizedEveryKey(n, done) == n + 1

Finalized(n, done) == IF done THEN n + 1 ELSE n

\* keyboard_handler, lines 383-389: something is capturing input.
Capture(ch) ==
  LET sent == send_character(value, ch)
      done == Done(ch, sent.keep)
  IN /\ value' = IF ch = ESCAPE_KEY THEN value ELSE sent.value
     /\ updated' = (ch # ESCAPE_KEY)
     /\ finalize_calls' = Finalized(finalize_calls, done)
     /\ filter_editing' = IF done THEN FALSE ELSE filter_editing
     /\ editing' = IF done THEN "None" ELSE editing
     /\ refreshed' = TRUE
     /\ ret' = TRUE
     /\ ran' = IF ch = ESCAPE_KEY THEN "escape" ELSE "send_character"
     /\ frame' = NoFrame
     /\ UNCHANGED <<df, mode, view_state>>

\* The command the key resolves to: the table scope first, in table mode
\* only, then the global scope ("none" when neither holds the key).
\* The table scope consulted in every mode.
ResolveAnyMode(ch) ==
  IF ch \in DOMAIN registry.table_commands THEN registry.table_commands[ch]
  ELSE IF ch \in DOMAIN registry.commands THEN registry.commands[ch]
  ELSE "none"

Resolve(ch) ==
  IF mode = "TABLE" /\ ch \in DOMAIN registry.table_commands
  THEN registry.table_commands[ch]
  ELSE IF ch \in DOMAIN registry.commands THEN registry.commands[ch]
  ELSE "none"

\* The commands consulted before the active editor.
keyboard_handler_commands_first(ch) ==
  /\ key' = ch
  /\ registry' = registry
  /\ IF Resolve(ch) # "none" THEN Call(Resolve(ch))
     ELSE IF editing # "None" THEN Capture(ch)
     ELSE NoCommand

keyboard_handler(ch) ==
  /\ key' = ch
  /\ registry' = registry
  /\ IF editing # "None"
     THEN Capture(ch)
     ELSE IF Resolve(ch) # "none" THEN Call(Resolve(ch)) ELSE NoCommand

\* The keystrokes the model types: the command keys with no editor active,
\* the editor's characters while one is, and no text beyond MaxLen.
Typed(ch) ==
  IF editing = "None" THEN ch \in CommandKeys
  ELSE /\ ch \in EditKeys
       /\ ch # ESCAPE_KEY => Len(send_character(value, ch).value) <= MaxLen

Keystroke == \E ch \in Keys : Typed(ch) /\ keyboard_handler(ch)

\* ------------------------------------------------------------------ filter
\* str(cell) for a cell of the given dtype.
Digit(n) == <<"0", "1", "2", "3", "4", "5", "6", "7", "8", "9">>[n + 1]

RECURSIVE IntStr(_)
IntStr(n) == IF n < 10 THEN <<Digit(n)>> ELSE Append(IntStr(n \div 10), Digit(n % 10))

Str(cell, dtype) ==
  CASE dtype = "bool" -> IF cell THEN <<"T", "r", "u", "e">> ELSE <<"F", "a", "l", "s", "e">>
    [] dtype = "int" -> IF cell < 0 THEN <<"-">> \o IntStr(-cell) ELSE IntStr(cell)
    [] OTHER -> cell

AllRows(d) == [i \in 1..Len(d.rows) |-> i]

\* text in df.columns (every column name here is one character long)
IsColumn(text, d) == Len(text) = 1 /\ InSeq(text[1], d.columns)

\* The number of leading "~" of a text.
RECURSIVE Tildes(_)
Tildes(t) == IF Len(t) > 0 /\ t[1] = "~" THEN 1 + Tildes(Tail(t)) ELSE 0

\* getattr(df, col) for a column name, lines 124 and 127: the column's
\* series, unless the DataFrame class defines the name itself.
getattr(d, col) == IF col \in d.attributes THEN "method" ELSE "series"

\* eval(filter_string, None, locals()) with every column bound to
\* getattr(df, col), for a text of "~", letters and "\r": the text parses as an
\* expression only as ~...~name around blank lines; a name that is no
\* column is unbound; ~ is undefined on a column of strings and on a
\* method.  The value is the column with each cell inverted once per "~".
Eval(text, d) ==
  LET body == Strip(text)
      n    == Tildes(body)
      rest == SubSeq(body, n + 1, Len(body))
  IN IF /\ Len(rest) = 1 /\ InSeq(rest[1], d.columns)
        /\ d.dtypes[rest[1]] # "object"
        /\ getattr(d, rest[1]) = "series"
     THEN [ok |-> TRUE, col |-> rest[1], dtype |-> d.dtypes[rest[1]], odd |-> n % 2 = 1]
     ELSE [ok |-> FALSE, col |-> "", dtype |-> "", odd |-> FALSE]

\* compile_filter(filter_string)(df): what _compiled_filter returns.
\*   "series": the named column itself (a bare column name, line 124)
\*   "method": the DataFrame's own attribute of that name (line 124)
\*   "rows":   df[evaluated] for a boolean column value
\*   "index":  df[evaluated] for a column value that is no boolean mask
\*   "raise":  an exception
compiled_filter(text, d) ==
  IF IsColumn(Strip(text), d)
  THEN [kind |-> getattr(d, Strip(text)[1]), col |-> Strip(text)[1], rows |-> AllRows(d)]
  ELSE LET evaluated == Eval(text, d)
       IN IF ~evaluated.ok THEN [kind |-> "raise", col |-> "", rows |-> <<>>]
          ELSE IF evaluated.dtype = "bool"
          THEN [kind |-> "rows", col |-> "",
                rows |-> LET keep(i) == d.rows[i][evaluated.col] # evaluated.odd
                         IN SelectSeq(AllRows(d), keep)]
          ELSE [kind |-> "index", col |-> evaluated.col, rows |-> <<>>]

\* The fallback of the filter, lines 214-226: the rows of which some
\* column's str() contains the text.  reduce() raises on no column at all.
Substring(text, d) ==
  IF d.columns = <<>>
  THEN [error |-> "TypeError", via |-> "substring", columns |-> <<>>, rows |-> <<>>]
  ELSE [error |-> "none", via |-> "substring", columns |-> d.columns,
        rows |-> LET keep(i) == \E c \in 1..Len(d.columns) :
                                  Contains(Str(d.rows[i][d.columns[c]],
                                               d.dtypes[d.columns[c]]), text)
                 IN SelectSeq(AllRows(d), keep)]

\* The filter step of a render, lines 204-226.  Indexing the source by a
\* column value that is no mask fails: at once (eager = TRUE, caught here)
\* or when the rows are computed (a deferred error the render meets).  A
\* method has no to_frame(): line 210 raises, which is caught here as well.
\* The filter whose fallback searches for the empty text too.
FilterSearchesEmpty(text, d, eager) ==
  IF text = <<>> THEN Substring(text, d)
  ELSE LET filtered == compiled_filter(text, d)
       IN CASE filtered.kind = "series" ->
                 [error |-> "none", via |-> "to_frame", columns |-> <<filtered.col>>,
                  rows |-> filtered.rows]
            [] filtered.kind = "rows" ->
                 [error |-> "none", via |-> "rows", columns |-> d.columns,
                  rows |-> filtered.rows]
            [] filtered.kind = "index" /\ ~eager ->
                 [error |-> "KeyError", via |-> "index", columns |-> d.columns,
                  rows |-> <<>>]
            [] OTHER -> Substring(text, d)

Filter(text, d, eager) ==
  IF text = <<>>
  THEN [error |-> "none", via |-> "source", columns |-> d.columns, rows |-> AllRows(d)]
  ELSE LET filtered == compiled_filter(text, d)
       IN CASE filtered.kind = "series" ->
                 [error |-> "none", via |-> "to_frame", columns |-> <<filtered.col>>,
                  rows |-> filtered.rows]
            [] filtered.kind = "rows" ->
                 [error |-> "none", via |-> "rows", columns |-> d.columns,
                  rows |-> filtered.rows]
            [] filtered.kind = "index" /\ ~eager ->
                 [error |-> "KeyError", via |-> "index", columns |-> d.columns,
                  rows |-> <<>>]
            [] OTHER -> Substring(text, d)

\* -------------------------------------------------------------- column fit
RECURSIVE accumulate(_)
\* np.add.accumulate: the running sums of a list.
accumulate(w) ==
  IF w = <<>> THEN <<>>
  ELSE LET before == accumulate(SubSeq(w, 1, Len(w) - 1))
       IN Append(before, (IF before = <<>> THEN 0 ELSE before[Len(before)]) + w[Len(w)])

\* np.where(total_width > width)[0]: the positions, counted from 0, of the
\* running sums beyond the width.
cant_render(total_width, width) ==
  LET beyond(i) == total_width[i + 1] > width
  IN SelectSeq([i \in 1..Len(total_width) |-> i - 1], beyond)

\* Lines 255-274: how many of the n column names are kept for a viewport
\* of the given width, from the maximum widths of the measured columns
\* (one per name, or none at all when the page holds no row: line 252 zips
\* the names with the transposed page).  available_width / max_column >= 4
\* is a true division of integers, max_column >= 1.
\* The fit that asks for more than 30 spare cells.
column_fit_strict(width, n, maximum) ==
  LET max_column_widths == [i \in 1..Len(maximum) |-> maximum[i] + 1]
      total_width       == accumulate(max_column_widths)
      cant              == cant_render(total_width, width)
  IN IF cant = <<>> THEN n
     ELSE LET max_column      == Max(cant[1], 1)
              available_width == width - total_width[max_column]
          IN Min(n, IF /\ max_column < Len(maximum)
                       /\ available_width > 30
                       /\ available_width >= 4 * max_column
                    THEN max_column + 1
                    ELSE max_column)

column_fit(width, n, maximum) ==
  LET max_column_widths == [i \in 1..Len(maximum) |-> maximum[i] + 1]
      total_width       == accumulate(max_column_widths)
      cant              == cant_render(total_width, width)
  IN IF cant = <<>> THEN n
     ELSE LET max_column      == Max(cant[1], 1)
              available_width == width - total_width[max_column]
          IN Min(n, IF /\ max_column < Len(maximum)
                       /\ available_width >= 30
                       /\ available_width >= 4 * max_column
                    THEN max_column + 1
                    ELSE max_column)

\* The longest of a non-empty set of texts.
Widest(texts) == CHOOSE k \in {Len(t) : t \in texts} : \A t \in texts : Len(t) <= k

\* Stand-in for the width table._measure_column reports as the maximum of a
\* column: the longest text among its header and its cells.  cells are the
\* rows of the page; the column named " " holds their index labels.
measure(name, cells, d) ==
  Widest({<<name>>} \cup
         {IF name = " " THEN Str(cells[k] - 1, "int")
          ELSE Str(d.rows[cells[k]][name], d.dtypes[name]) : k \in 1..Len(cells)})

\* ------------------------------------------------------------------ render
\* The rows itertools.islice(rows, start, stop) yields.
Slice(rows, start, stop) == SubSeq(rows, start + 1, Min(stop, Len(rows)))

\* TableView.__rich_console__ for a terminal of the given size.  The frame
\* holds the header (the index column first) cut to the columns that fit,
\* the page, the row count of the filtered view, and what the column fit
\* worked from: the viewport width, every column's maximum width and whether
\* the columns were measured (they are when the page holds a row).  A render
\* that raises yields none of them.  The frame also keeps options.height and
\* whether the prompt line was yielded.
rich_console(options, eager) ==
  LET prompt == value # <<>> \/ filter_editing
      height == IF prompt THEN options.height - Chrome - 1 ELSE options.height - Chrome
      width  == options.max_width - 2
  IN /\ mode = "TABLE"
     /\ last_page_size' = height
     /\ \E filtered \in {Filter(value, df, eager)} :
          LET failed == IF filtered.error = "TypeError" THEN "TypeError"
                        ELSE IF startat < 0 \/ startat + height < 0 THEN "ValueError"
                        ELSE filtered.error
          IN IF failed # "none"
             THEN frame' = [NoFrame EXCEPT !.rendered = TRUE, !.raised = TRUE,
                                           !.error = failed, !.prompt = prompt,
                                           !.via = filtered.via,
                                           !.height = options.height]
             ELSE \E paged \in {Slice(filtered.rows, startat, startat + height)},
                     column_names \in {<<" ">> \o SliceFrom(filtered.columns, column_startat)} :
                    \E maximum \in {[i \in 1..Len(column_names) |->
                                        measure(column_names[i], paged, df)]} :
                      \E kept \in {column_fit(width, Len(column_names),
                                              IF paged = <<>> THEN <<>> ELSE maximum)} :
                        frame' = [rendered |-> TRUE, raised |-> FALSE, error |-> "none",
                                  prompt |-> prompt, via |-> filtered.via,
                                  columns |-> SubSeq(column_names, 1, kept),
                                  page |-> paged,
                                  total |-> Len(filtered.rows),
                                  width |-> width, maximum |-> maximum,
                                  measured |-> paged # <<>>, admitted |-> kept,
                                  height |-> options.height]
     /\ ran' = "render"
     /\ key' = ""
     /\ updated' = FALSE
     /\ refreshed' = FALSE
     /\ UNCHANGED <<df, mode, editing, value, filter_editing, startat, column_startat,
                    ret, finalize_calls, registry>>

Render == \E options \in Terminals, eager \in BOOLEAN : rich_console(options, eager)

\* ----------------------------------------------------------- specification
Init ==
  /\ df \in DataSources
  /\ mode = "TABLE"
  /\ editing = "None"
  /\ value = <<>>
  /\ filter_editing = FALSE
  /\ startat = 0
  /\ column_startat = 0
  /\ last_page_size = 0
  /\ key = ""
  /\ ret = TRUE
  /\ ran = "init"
  /\ updated = FALSE
  /\ refreshed = FALSE
  /\ finalize_calls = 0
  /\ frame = NoFrame
  /\ registry = Registered

Next == Keystroke \/ Render

Spec == Init /\ [][Next]_vars

\* ------------------------------------------------- keystrokes, on their own
\* The dispatcher and the editor with no render between the keystrokes.
EditorSpec == Init /\ [][Keystroke]_vars

\* ---------------------------------------------- registration, on its own
\* The class body registering commands in any order, each decorator
\* running add_command's decorator once; a KeyError ends the class body.
\* Once the class is defined without error an Interface is constructed and
\* handles keystrokes with what was registered.
NoCommands == [k \in {} |-> "none"]

\* add_command that replaces the command registered under the key.
add_command_replace(command_dict, k, fn) ==
  /\ registry' = [registry EXCEPT ![command_dict] =
                     [c \in DOMAIN @ \cup {k} |-> IF c = k THEN fn ELSE @[c]]]
  /\ ran' = "add_command"
  /\ UNCHANGED <<df, mode, editing, value, filter_editing, view_state, key, ret,
                 updated, refreshed, finalize_calls, frame>>

\* add_command(command_dict, key, ...)(fn), lines 339-343.
add_command(command_dict, k, fn) ==
  /\ registry' = IF k \in DOMAIN registry[command_dict]
                 THEN [registry EXCEPT !.raised = TRUE]
                 ELSE [registry EXCEPT ![command_dict] =
                         [c \in DOMAIN @ \cup {k} |-> IF c = k THEN fn ELSE @[c]]]
  /\ ran' = "add_command"
  /\ UNCHANGED <<df, mode, editing, value, filter_editing, view_state, key, ret,
                 updated, refreshed, finalize_calls, frame>>

Register ==
  /\ ~registry.started
  /\ ~registry.raised
  /\ \E command_dict \in Scopes, k \in RegKeys, fn \in RegHandlers :
       add_command(command_dict, k, fn)

\* Interface.__init__ once the class is defined.
Construct ==
  /\ ~registry.started
  /\ ~registry.raised
  /\ registry' = [registry EXCEPT !.started = TRUE]
  /\ ran' = "init"
  /\ UNCHANGED <<df, mode, editing, value, filter_editing, view_state, key, ret,
                 updated, refreshed, finalize_calls, frame>>

RegKeystroke ==
  /\ registry.started
  /\ \E ch \in RegKeys : keyboard_handler(ch)

RegInit ==
  /\ df = DF_FULL
  /\ mode = "TABLE"
  /\ editing = "None"
  /\ value = <<>>
  /\ filter_editing = FALSE
  /\ startat = 0
  /\ column_startat = 0
  /\ last_page_size = 0
  /\ key = ""
  /\ ret = TRUE
  /\ ran = "init"
  /\ updated = FALSE
  /\ refreshed = FALSE
  /\ finalize_calls = 0
  /\ frame = NoFrame
  /\ registry = [table_commands |-> NoCommands, commands |-> NoCommands,
                 raised |-> FALSE, started |-> FALSE]

RegNext == Register \/ Construct \/ RegKeystroke

RegSpec == RegInit /\ [][RegNext]_vars

\* ------------------------------------------------ filtering, on its own
\* The filter prompt and the renders of what it holds, on every source and
\* on the one with a column named like a method: "/" starts a session, the
\* editor's characters are typed, and any state may be rendered.
FilterKeystroke ==
  \E ch \in {"/"} \cup EditKeys : Typed(ch) /\ keyboard_handler(ch)

FilterInit ==
  /\ df \in DataSources \cup {DF_SHADOWED}
  /\ mode = "TABLE"
  /\ editing = "None"
  /\ value = <<>>
  /\ filter_editing = FALSE
  /\ startat = 0
  /\ column_startat = 0
  /\ last_page_size = 0
  /\ key = ""
  /\ ret = TRUE
  /\ ran = "init"
  /\ updated = FALSE
  /\ refreshed = FALSE
  /\ finalize_calls = 0
  /\ frame = NoFrame
  /\ registry = Registered

FilterNext == FilterKeystroke \/ Render

FilterSpec == FilterInit /\ [][FilterNext]_vars

\* ----------------------------------------------------- paging, on its own
\* The browser on sources of up to 55 rows, left in table mode with no
\* filter: the paging keys and the renders that record the page size.
PagedKeystroke == \E ch \in {"j", "k", "g", "G"} : keyboard_handler(ch)

PagedRender ==
  \E h \in PagedHeights : rich_console([height |-> h, max_width |-> 80], TRUE)

PagedInit ==
  /\ df \in {DF_ROWS(n) : n \in RowCounts}
  /\ mode = "TABLE"
  /\ editing = "None"
  /\ value = <<>>
  /\ filter_editing = FALSE
  /\ startat = 0
  /\ column_startat = 0
  /\ last_page_size = 0
  /\ key = ""
  /\ ret = TRUE
  /\ ran = "init"
  /\ updated = FALSE
  /\ refreshed = FALSE
  /\ finalize_calls = 0
  /\ frame = NoFrame
  /\ registry = Registered

PagedNext == PagedKeystroke \/ PagedRender

PagedSpec == PagedInit /\ [][PagedNext]_vars

\* ------------------------------------------------- column fit, on its own
\* The column fit of a render applied to every measure result: the
\* columns of a page are measured one by one (the comprehension of lines
\* 255-257), then the fit runs once for a viewport width.  The page holds a
\* row (measured) or none, in which case the fit sees no width at all.
MeasureColumn ==
  /\ ~frame.rendered
  /\ Len(frame.maximum) < MaxColumns
  /\ \E m \in Maxima : frame' = [frame EXCEPT !.maximum = Append(@, m)]
  /\ UNCHANGED <<df, mode, editing, value, filter_editing, view_state, key, ret, ran,
                 updated, refreshed, finalize_calls, registry>>

FitColumns ==
  /\ ~frame.rendered
  /\ Len(frame.maximum) >= 1
  /\ \E width \in ViewportWidths, measured \in BOOLEAN :
       frame' = [frame EXCEPT
                   !.rendered = TRUE,
                   !.width = width,
                   !.measured = measured,
                   !.admitted = column_fit(width, Len(frame.maximum),
                                           IF measured THEN frame.maximum ELSE <<>>)]
  /\ UNCHANGED <<df, mode, editing, value, filter_editing, view_state, key, ret, ran,
                 updated, refreshed, finalize_calls, registry>>

FitInit == Init /\ df = DF_FULL

FitNext == MeasureColumn \/ FitColumns

FitSpec == FitInit /\ [][FitNext]_vars

\* ------------------------------------------------------------------ claims
\* In the action formulas below a step that handles a keystroke is a step
\* of keyboard_handler(key'): key' is the character it was called with.

\* C1: after any keystrokes and renders the stored row offset satisfies
\* 0 <= startat < max(rowCount, 1); it is 0 on an empty source.
C1_StartatInRange == 0 <= startat /\ startat < Max(Len(df.rows), 1)

\* C2: in every reachable state and for every viewport height, rendering
\* the table view produces a frame and does not raise.
C2_RenderNeverRaises == frame.rendered => ~frame.raised

\* C3: while an editor is active the dispatcher returns true for every
\* character, runs no command handler, and leaves Mode, startat and
\* columnStartAt unchanged.
C3_EditorTakesEveryKey ==
  [][(editing # "None" /\ keyboard_handler(key')) =>
         /\ ret' = TRUE
         /\ ran' \in {"send_character", "escape"}
         /\ mode' = mode
         /\ startat' = startat
         /\ column_startat' = column_startat]_vars

C3_Witness ==
  /\ editing = "_filter"
  /\ key = "q"
  /\ ran = "send_character"
  /\ ret = TRUE
  /\ EndsWith(value, "q")

\* C4: finalize is invoked exactly once per editing session, at the
\* keystroke that ends it (return or escape), never while the session
\* continues and never again afterwards; at that keystroke the editing
\* flag is cleared and the active-editor slot is released.
C4_FinalizeOncePerSession ==
  [][/\ (editing # "None" /\ keyboard_handler(key')) =>
            IF key' \in {ESCAPE_KEY, NEWLINE}
            THEN /\ finalize_calls = 0
                 /\ finalize_calls' = 1
                 /\ filter_editing' = FALSE
                 /\ editing' = "None"
            ELSE /\ finalize_calls' = 0
                 /\ filter_editing' = TRUE
                 /\ editing' = editing
     /\ editing' = editing => finalize_calls' = finalize_calls]_vars

C4_Witness ==
  /\ key = NEWLINE
  /\ ran = "send_character"
  /\ editing = "None"
  /\ filter_editing = FALSE
  /\ finalize_calls = 1

\* C5: with an editor active the escape character ends the session at that
\* keystroke whatever the buffer holds: the update policy is not called,
\* the buffer is unchanged and finalize is invoked once.
C5_EscapeEndsSession ==
  [][(editing # "None" /\ keyboard_handler(ESCAPE_KEY)) =>
       /\ editing' = "None"
       /\ filter_editing' = FALSE
       /\ updated' = FALSE
       /\ value' = value
       /\ finalize_calls' = finalize_calls + 1]_vars

C5_Witness ==
  /\ key = ESCAPE_KEY
  /\ ran = "escape"
  /\ value # <<>>
  /\ editing = "None"
  /\ updated = FALSE
  /\ finalize_calls = 1

\* C6 as stated: starting an editing session ("/" in table mode) puts the
\* editor in the editing state with an empty buffer.
C6_StartResetsBuffer ==
  ran = "edit_filter" => (filter_editing /\ editing = "_filter" /\ value = <<>>)

\* C6 amended: starting an editing session moves the editor from idle to
\* editing and leaves its buffer as it was; the text of an earlier session
\* is kept.
C6_StartKeepsBuffer ==
  [][(editing = "None" /\ mode = "TABLE" /\ keyboard_handler("/")) =>
       /\ filter_editing = FALSE
       /\ filter_editing' = TRUE
       /\ editing' = "_filter"
       /\ value' = value]_vars

C6_Witness ==
  /\ ran = "edit_filter"
  /\ filter_editing
  /\ editing = "_filter"
  /\ value # <<>>

\* C7: with no active editor a key is resolved against the table-scope
\* commands first, in table mode only, then against the global-scope
\* commands; the first scope holding the key wins; a key in neither
\* changes no session state and the dispatcher returns true.
C7_ScopeOrder ==
  [][(editing = "None" /\ keyboard_handler(key')) =>
         IF mode = "TABLE" /\ key' \in DOMAIN table_commands
         THEN ran' = table_commands[key'] /\ mode' = mode
         ELSE IF key' \in DOMAIN commands
         THEN ran' = commands[key'] /\ UNCHANGED view_state
         ELSE /\ ran' = "none"
              /\ ret' = TRUE
              /\ UNCHANGED <<mode, view_state, editing, value, filter_editing>>]_vars

C7_Witness ==
  /\ key = "j"
  /\ mode = "SUMMARY"
  /\ ran = "none"
  /\ ret = TRUE
  /\ editing = "None"

\* C8: the dispatcher returns false exactly when no editor is active and
\* the key is the quit command's ("q"), in every mode; every other
\* keystroke returns true.
C8_FalseOnlyOnQuit ==
  [][keyboard_handler(key') =>
       (ret' = FALSE <=> (editing = "None" /\ key' = "q"))]_vars

C8_Witness ==
  /\ key = "q"
  /\ ran = "quit"
  /\ ret = FALSE
  /\ mode = "HELP"

\* The rows of the source, in source order, of which some column's str()
\* contains the text.
MatchingRows(text, d) ==
  LET hit(i) == \E c \in 1..Len(d.columns) :
                  Contains(Str(d.rows[i][d.columns[c]], d.dtypes[d.columns[c]]), text)
  IN SelectSeq(AllRows(d), hit)

\* C9: for every non-empty filter text whose evaluation raises, the
\* filtered view is exactly the rows of which some column's str() contains
\* the text, and no filter error reaches the caller of the render.
C9_FallbackIsSubstringSearch ==
  (frame.rendered /\ value # <<>> /\ compiled_filter(value, df).kind = "raise") =>
    /\ frame.error \notin {"TypeError", "KeyError"}
    /\ Filter(value, df, TRUE).rows = MatchingRows(value, df)
    /\ ~frame.raised => frame.total = Len(MatchingRows(value, df))

\* C10: a filter text that is no bare column name and evaluates to a column
\* value that is no boolean mask yields the one-column view wrapping that
\* value, not the substring-search fallback.
C10_ColumnValueIsWrapped ==
  (frame.rendered /\ compiled_filter(value, df).kind = "index") =>
    /\ frame.via = "to_frame"
    /\ frame.error \notin {"TypeError", "KeyError"}

\* C11: after any scroll-left and scroll-right keystrokes, on any source
\* (one with no columns included), the stored column offset satisfies
\* 0 <= column_startat < max(columnCount, 1).
C11_ColumnStartatInRange ==
  0 <= column_startat /\ column_startat < Max(Len(df.columns), 1)

RECURSIVE CumulativeWidth(_, _)
\* The cumulative width of the first k columns, each counted as its
\* maximum width + 1.
CumulativeWidth(maximum, k) ==
  IF k = 0 THEN 0 ELSE CumulativeWidth(maximum, k - 1) + maximum[k] + 1

\* C12: for every viewport width, every list of column widths (the index
\* column included) and every page, empty or not, the column fit admits at
\* least 1 and at most all of the columns, and the cumulative width of the
\* admitted columns, the last one possibly excepted, is within the
\* viewport width.
C12_FitWithinWidth ==
  (frame.rendered /\ ~frame.raised) =>
    /\ frame.admitted \in 1..Len(frame.maximum)
    /\ \A k \in 1..(frame.admitted - 1) :
         CumulativeWidth(frame.maximum, k) <= frame.width

\* A requested offset the startat setter stores as it is.
Unclamped(x) == 0 <= x /\ x <= Len(df.rows) - 1

\* C13: page-down followed by page-up with the same last_page_size (no
\* render in between) returns startat to its value before, for every
\* startat, row count and last_page_size, whenever neither move is clamped:
\* after an unclamped page-down, the offset an unclamped page-up stores is
\* the offset before the page-down.
C13_PageDownUpRoundTrip ==
  [][(/\ editing = "None" /\ mode = "TABLE"
      /\ keyboard_handler("j")
      /\ Unclamped(startat + last_page_size)
      /\ Unclamped(startat - last_page_size)') =>
       /\ startat' = startat + last_page_size
       /\ decrement_page' = startat]_vars

C13_Witness ==
  /\ key = "j"
  /\ ran = "scroll_down"
  /\ Len(df.rows) = 55
  /\ last_page_size = 20
  /\ startat = 40
  /\ decrement_page = 20

\* The valid offsets of a source of n rows: 0 <= offset < max(n, 1).
ValidOffset(x, n) == Min(Max(n, 1) - 1, Max(0, x))

\* C14: go-to-bottom ("G" in table mode) sets startat to rowCount -
\* lastPageSize clamped into the valid offset range, for every row count
\* and every page size the last render recorded (20 and 55 give 35; a page
\* size of at least the row count gives 0).
C14_BottomIsLastPage ==
  ran = "go_to_bottom" =>
    startat = ValidOffset(Len(df.rows) - last_page_size, Len(df.rows))

\* t without its trailing characters of chars: a prefix of t that ends with
\* none of them, the rest of t being made of them.
StrippedOf(t, chars, stripped) ==
  /\ Len(stripped) <= Len(t)
  /\ stripped = SubSeq(t, 1, Len(stripped))
  /\ \A i \in (Len(stripped) + 1)..Len(t) : t[i] \in chars
  /\ stripped = <<>> \/ stripped[Len(stripped)] \notin chars

\* C15: under the filter prompt's policy a session continues after a
\* keystroke given to the editor exactly when the buffer does not end with
\* a newline; a keystroke that leaves it ending with a newline ends the
\* session and the value kept as filter text is the buffer without its
\* trailing newlines and carriage returns; once a session has ended the
\* filter text never ends with a newline.
C15_ReturnEndsAndStrips ==
  [][/\ (editing # "None" /\ key' # ESCAPE_KEY /\ keyboard_handler(key')) =>
          IF EndsWith(Edited(value, key'), NEWLINE)
          THEN /\ editing' = "None"
               /\ ~filter_editing'
               /\ StrippedOf(Edited(value, key'), {CR, NEWLINE}, value')
          ELSE /\ editing' = editing
               /\ filter_editing'
     /\ editing' = "None" => ~EndsWith(value', NEWLINE)]_vars

C15_Witness ==
  /\ key = NEWLINE
  /\ ran = "send_character"
  /\ updated
  /\ editing = "None"
  /\ value = <<"~", "q">>

\* C16: send_character changes the buffer, for every buffer and character:
\* either backspace alias removes the last character (nothing on an empty
\* buffer), the clear-line character empties it, any other character is
\* appended at the end; the update policy is then called with the new
\* buffer and its answer is what send_character returns (editing goes on
\* exactly when it is true).
C16_SendCharacterEdits ==
  [][(editing # "None" /\ key' # ESCAPE_KEY /\ keyboard_handler(key')) =>
       LET buffer == IF key' \in {BACKSPACE, CTRL_H}
                     THEN IF value = <<>> THEN <<>>
                          ELSE SubSeq(value, 1, Len(value) - 1)
                     ELSE IF key' = CTRL_K THEN <<>>
                     ELSE value \o <<key'>>
       IN /\ updated'
          /\ value' = exit_on_return(buffer).value
          /\ (editing' # "None") = exit_on_return(buffer).keep]_vars

C16_Witness ==
  /\ key \in {BACKSPACE, CTRL_H}
  /\ ran = "send_character"
  /\ updated
  /\ editing = "_filter"
  /\ Len(value) = 1

\* C17: when the filter text is empty the filter step returns the full,
\* unfiltered view: the source's rows in their order, its row count and its
\* columns, whatever the source holds.
C17_EmptyFilterIsSource ==
  (frame.rendered /\ value = <<>>) =>
    /\ \A eager \in BOOLEAN :
         /\ Filter(value, df, eager).error = "none"
         /\ Filter(value, df, eager).rows = [i \in 1..Len(df.rows) |-> i]
         /\ Filter(value, df, eager).columns = df.columns
    /\ frame.error \in {"none", "ValueError"}
    /\ ~frame.raised =>
         /\ frame.total = Len(df.rows)
         /\ Len(frame.maximum) = 1 + Len(SliceFrom(df.columns, column_startat))
         /\ \A k \in 1..Len(frame.page) : frame.page[k] = startat + k

C17_Witness ==
  /\ frame.rendered
  /\ ~frame.raised
  /\ value = <<>>
  /\ filter_editing
  /\ frame.prompt
  /\ frame.total = 3
  /\ frame.page = <<1>>

\* C18: when the filter text, trimmed of surrounding whitespace, is exactly
\* a column name of the source, the filtered view is the one-column view of
\* that column with all of the source's rows; the text is not evaluated as
\* an expression and no substring search is made.
C18_ColumnNameIsOneColumnView ==
  (frame.rendered /\ IsColumn(Strip(value), df)) =>
    /\ \A eager \in BOOLEAN :
         /\ Filter(value, df, eager).error = "none"
         /\ Filter(value, df, eager).columns = Strip(value)
         /\ Filter(value, df, eager).rows = [i \in 1..Len(df.rows) |-> i]
    /\ frame.via = "to_frame"
    /\ ~frame.raised => frame.total = Len(df.rows)

\* C19: registering a command under a key already registered in the same
\* scope raises a configuration error and leaves the earlier command under
\* that key; a key registered in the other scope only is accepted, and the
\* new command is added to its scope alone; commands are registered at
\* startup only: no keystroke changes a registry or raises the error.
C19_DuplicateKeyRaises ==
  [][/\ \A command_dict \in Scopes, k \in RegKeys, fn \in RegHandlers :
          (~registry.started /\ add_command(command_dict, k, fn)) =>
            LET other == CHOOSE o \in Scopes : o # command_dict
            IN IF k \in DOMAIN registry[command_dict]
               THEN /\ registry'.raised
                    /\ registry'[command_dict] = registry[command_dict]
                    /\ registry'[other] = registry[other]
               ELSE /\ ~registry'.raised
                    /\ DOMAIN registry'[command_dict] =
                         DOMAIN registry[command_dict] \cup {k}
                    /\ registry'[command_dict][k] = fn
                    /\ \A c \in DOMAIN registry[command_dict] :
                         registry'[command_dict][c] = registry[command_dict][c]
                    /\ registry'[other] = registry[other]
     /\ (registry.started /\ keyboard_handler(key')) =>
          /\ registry' = registry
          /\ ~registry'.raised]_vars

C19_Witness ==
  /\ ran = "add_command"
  /\ registry.raised
  /\ DOMAIN registry.table_commands = {"j"}
  /\ registry.table_commands["j"] = "scroll_down"
  /\ DOMAIN registry.commands = {"j", "q"}

\* The number of columns the reference admits for a viewport width and the
\* n column names, w holding the maximum width of each measured column
\* (counted as maximum + 1); cut counts the columns before the first one
\* whose cumulative width is beyond the viewport.
FitReference(width, n, w) ==
  LET cumulative(k) == CumulativeWidth(w, k)
      beyond == {k \in 1..Len(w) : cumulative(k) > width}
  IN IF beyond = {} THEN n
     ELSE LET first == CHOOSE k \in beyond : \A j \in beyond : k <= j
              cut   == Max(first - 1, 1)
              slack == width - cumulative(cut)
          IN IF cut < Len(w) /\ slack >= 30 /\ slack >= 4 * cut
             THEN cut + 1
             ELSE cut

\* C20: the number of columns the column fit admits is the reference's, for
\* every viewport width and every list of measured column widths (index
\* column first, each counted as maximum + 1): all of them when no
\* cumulative width is beyond the viewport; otherwise cut (at least 1), and
\* one more when cut is less than the column count and the spare width is
\* at least 30 and at least 4 per admitted column.  A page with no row
\* yields no measured column, and all columns are admitted.
C20_FitIsReference ==
  (frame.rendered /\ ~frame.raised) =>
    frame.admitted = FitReference(frame.width, Len(frame.maximum),
                                  IF frame.measured THEN frame.maximum ELSE <<>>)

\* A fit that admits one overflowing column after eight narrow ones would
\* not: the spare width is 32, exactly 4 per column.
C20_Witness ==
  /\ frame.rendered
  /\ frame.measured
  /\ frame.width = 40
  /\ Len(frame.maximum) = 9
  /\ frame.admitted = 9
  /\ CumulativeWidth(frame.maximum, 8) = 8
  /\ CumulativeWidth(frame.maximum, 9) > frame.width

\* C21: every render of the table sets last_page_size to the viewport
\* height minus the 7 rows of chrome, minus one more exactly when the
\* prompt line shows (a session is active or the filter text is not
\* empty); no keystroke changes it, and page-down and page-up request
\* startat plus and minus the value the most recent render recorded.
C21_PageSizeFromLastRender ==
  [][/\ ran' = "render" =>
          /\ frame'.rendered
          /\ frame'.height \in Heights
          /\ frame'.prompt = (filter_editing \/ Len(value) > 0)
          /\ last_page_size' =
               frame'.height - 7 - (IF filter_editing \/ Len(value) > 0 THEN 1 ELSE 0)
     /\ keyboard_handler(key') => last_page_size' = last_page_size
     /\ (editing = "None" /\ mode = "TABLE" /\ keyboard_handler("j")) =>
          startat' = Min(Len(df.rows) - 1, Max(0, startat + last_page_size))
     /\ (editing = "None" /\ mode = "TABLE" /\ keyboard_handler("k")) =>
          startat' = Min(Len(df.rows) - 1, Max(0, startat - last_page_size))]_vars

\* A page-down by the single row a render with the prompt line recorded.
C21_Witness ==
  /\ key = "j"
  /\ ran = "scroll_down"
  /\ value # <<>>
  /\ last_page_size = 1
  /\ startat = 1

\* C22: every keystroke that changes what is shown requests a refresh
\* before the dispatcher returns: every keystroke handled while an editor is
\* active, and every command that changes the mode, startat, column_startat
\* or starts editing (the buffer and the editing flag change only in those
\* steps).
C22_VisibleChangeRefreshes ==
  [][keyboard_handler(key') =>
       ((\/ editing # "None"
         \/ mode' # mode
         \/ startat' # startat
         \/ column_startat' # column_startat
         \/ editing' # editing
         \/ value' # value
         \/ filter_editing' # filter_editing) => refreshed')]_vars

C22_Witness ==
  /\ key = "l"
  /\ ran = "scroll_right"
  /\ column_startat = 1
  /\ refreshed

\* C23: in every state the active-editor slot is occupied exactly when the
\* filter editor's editing flag is true; the slot holds nothing but the
\* table's filter editor; and it becomes occupied only by the "/" command,
\* in table mode, with no editor active.
C23_SlotIffEditingFlag ==
  /\ []((editing # "None") = filter_editing)
  /\ [](editing \in {"None", "_filter"})
  /\ [][(editing = "None" /\ editing' # "None") =>
          /\ key' = "/"
          /\ mode = "TABLE"
          /\ ran' = "edit_filter"
          /\ editing' = "_filter"]_vars

C23_Witness ==
  /\ key = "/"
  /\ ran = "edit_filter"
  /\ editing = "_filter"
  /\ filter_editing
  /\ value = <<>>
  /\ mode = "TABLE"

====
